---- MODULE Spec2Model ----
(***************************************************************************)
(* A model of the mDNS/DNS-SD browser of cybergarage/mdns-rs: the DNS wire *)
(* codec (Reader, Writer, Record, Message), the Service aggregator and the *)
(* Discoverer that owns the multicast transport.                           *)
(*                                                                         *)
(* Bytes are integers 0..255, byte buffers and Strings are sequences of    *)
(* bytes (a String holds its UTF-8 encoding), cursors are zero based as in *)
(* the source.  Every fallible operation yields a record                   *)
(*     [st |-> "ok" | "err" | "panic" | "overflow", val |-> v, cur |-> c]  *)
(* where "err" is an Err(..) return, "panic" is a Rust panic (slice index  *)
(* out of range, unwrap on Err) and "overflow" is the stack exhaustion of  *)
(* a recursion deeper than the thread's stack, which aborts the process.   *)
(***************************************************************************)
EXTENDS Integers, Sequences, FiniteSets, TLC

(***************************************************************************)
(* Program constants.                                                      *)
(***************************************************************************)
HEADER_SIZE == 12
UNICAST_RESPONSE_MASK == 32768
CLASS_MASK == 32767
PORT == 5353
MULTICAST_V4_ADDR == "224.0.0.251"
MULTICAST_V6_ADDR == "ff02::fb"

DOT == 46
EQUALS == 61

(***************************************************************************)
(* Results of fallible operations.                                         *)
(***************************************************************************)
Ok(v, c) == [st |-> "ok", val |-> v, cur |-> c]
Err(c) == [st |-> "err", val |-> <<>>, cur |-> c]
Panic(c) == [st |-> "panic", val |-> <<>>, cur |-> c]
Overflow(c) == [st |-> "overflow", val |-> <<>>, cur |-> c]

\* The operator "?" and the unwinding of a panic: a result that is not Ok ends
\* the caller with that result, an Ok result is handed to the rest of the caller.
Try(r, Rest(_)) == IF r.st # "ok" THEN r ELSE Rest(r)

\* The same, where the caller has changed an object before the call that ends
\* it: the result that is not Ok carries the object as the caller leaves it.
TryLeaving(r, left, Rest(_)) == IF r.st # "ok" THEN [r EXCEPT !.val = left] ELSE Rest(r)

Tail0(s, n) == SubSeq(s, n + 1, Len(s))

Zeros(n) == [i \in 1..n |-> 0]

(***************************************************************************)
(* String::from_utf8: the validity test of the standard library, and the   *)
(* scalar values (chars) of a valid string.                                *)
(***************************************************************************)
IsCont(b) == b >= 128 /\ b <= 191

Utf8Width(s) ==
  LET b == s[1] n == Len(s) IN
  IF b <= 127 THEN 1
  ELSE IF b >= 194 /\ b <= 223 /\ n >= 2 /\ IsCont(s[2]) THEN 2
  ELSE IF b = 224 /\ n >= 3 /\ s[2] >= 160 /\ s[2] <= 191 /\ IsCont(s[3]) THEN 3
  ELSE IF b = 237 /\ n >= 3 /\ s[2] >= 128 /\ s[2] <= 159 /\ IsCont(s[3]) THEN 3
  ELSE IF b >= 225 /\ b <= 239 /\ b # 237 /\ n >= 3 /\ IsCont(s[2]) /\ IsCont(s[3]) THEN 3
  ELSE IF b = 240 /\ n >= 4 /\ s[2] >= 144 /\ s[2] <= 191 /\ IsCont(s[3]) /\ IsCont(s[4]) THEN 4
  ELSE IF b = 244 /\ n >= 4 /\ s[2] >= 128 /\ s[2] <= 143 /\ IsCont(s[3]) /\ IsCont(s[4]) THEN 4
  ELSE IF b >= 241 /\ b <= 243 /\ n >= 4 /\ IsCont(s[2]) /\ IsCont(s[3]) /\ IsCont(s[4]) THEN 4
  ELSE 0

RECURSIVE IsUtf8(_)
IsUtf8(s) ==
  IF s = <<>> THEN TRUE
  ELSE LET w == Utf8Width(s) IN
       IF w = 0 THEN FALSE ELSE IsUtf8(Tail0(s, w))

RECURSIVE Chars(_)
Chars(s) ==
  IF s = <<>> THEN <<>>
  ELSE LET w == Utf8Width(s)
           cp == CASE w = 1 -> s[1]
                   [] w = 2 -> (s[1] % 32) * 64 + (s[2] % 64)
                   [] w = 3 -> (s[1] % 16) * 4096 + (s[2] % 64) * 64 + (s[3] % 64)
                   [] w = 4 -> (s[1] % 8) * 262144 + (s[2] % 64) * 4096
                                 + (s[3] % 64) * 64 + (s[4] % 64)
                   [] OTHER -> s[1]
       IN <<cp>> \o Chars(Tail0(s, IF w = 0 THEN 1 ELSE w))

(***************************************************************************)
(* Reader: a buffer and a zero-based cursor.                               *)
(***************************************************************************)
\* read_bytes without the length test: it copies whatever lies behind the cursor.
ReadBytesUnchecked(buf, cur, n) ==
  Ok([i \in 1..n |-> IF cur + i <= Len(buf) THEN buf[cur + i] ELSE 0], cur + n)

ReadBytes(buf, cur, n) ==
  IF Len(buf) < cur + n THEN Err(cur)
  ELSE Ok(SubSeq(buf, cur + 1, cur + n), cur + n)

ReadU8(buf, cur) ==
  IF Len(buf) < cur THEN Err(cur)
  ELSE IF cur >= Len(buf) THEN Panic(cur)
  ELSE Ok(buf[cur + 1], cur + 1)

ReadU16(buf, cur) ==
  Try(ReadBytes(buf, cur, 2), LAMBDA r : Ok(r.val[1] * 256 + r.val[2], r.cur))

\* A u32 is kept as its two 16-bit halves: hi * 65536 + lo.
U32(hi, lo) == [hi |-> hi, lo |-> lo]

ReadU32(buf, cur) ==
  Try(ReadBytes(buf, cur, 4),
      LAMBDA r : Ok(U32(r.val[1] * 256 + r.val[2], r.val[3] * 256 + r.val[4]),
                    r.cur))

ReadStringSize(buf, cur) ==
  IF Len(buf) < cur THEN Err(cur)
  ELSE IF cur >= Len(buf) THEN Panic(cur)
  ELSE Ok(buf[cur + 1], cur + 1)

FromUtf8Unwrap(bytes, cur) == IF IsUtf8(bytes) THEN Ok(bytes, cur) ELSE Panic(cur)

ReadString(buf, cur) ==
  Try(ReadStringSize(buf, cur),
      LAMBDA n : IF Len(buf) < n.cur + n.val THEN Err(n.cur)
                 ELSE FromUtf8Unwrap(SubSeq(buf, n.cur + 1, n.cur + n.val),
                                     n.cur + n.val))

RECURSIVE ReadStringsLoop(_, _, _)
ReadStringsLoop(buf, cur, strs) ==
  Try(ReadStringSize(buf, cur),
      LAMBDA n : IF n.val = 0 THEN Ok(strs, n.cur)
                 ELSE IF Len(buf) < n.cur + n.val THEN Err(n.cur)
                 ELSE Try(FromUtf8Unwrap(SubSeq(buf, n.cur + 1, n.cur + n.val),
                                         n.cur + n.val),
                          LAMBDA b : ReadStringsLoop(buf, b.cur, Append(strs, b.val))))

ReadStrings(buf, cur) == ReadStringsLoop(buf, cur, <<>>)

(***************************************************************************)
(* read_name.  A pointer is followed by a fresh Reader over the sub-slice  *)
(* buffer[offset..], by recursion and with no cap: every pointer takes one *)
(* more frame of the calling thread's stack, and a call made when no frame *)
(* is left aborts the process.  How many frames are left when read_name is *)
(* entered depends on the build (frame size), on the thread (stack size:   *)
(* any thread may call it) and on how deep the caller already is, so it is *)
(* the variable stack, which a run may start with any value: the one frame *)
(* of the call itself, a few frames, or more than any buffer can take.     *)
(*                                                                         *)
(* depth counts the frames still available.  A nested reader starts at     *)
(* cursor 0 of a slice that is shorter unless the offset is 0, and a       *)
(* nested reader sent to offset 0 from cursor 0 repeats its parent: a      *)
(* chain of readers that ends has at most Len(buffer) + 2 of them, and a   *)
(* longer one is a pointer loop, which never returns and so exhausts every *)
(* stack.                                                                  *)
(***************************************************************************)
\* The frames of read_name left on the stack of the calling thread.
VARIABLE stack

\* Every small number of frames, and a stack with room for every chain.
MaxStack == 3
AmpleStack == 1000000000
StackSizes == (1..MaxStack) \cup {AmpleStack}

Frames(buf) == IF stack < Len(buf) + 2 THEN stack ELSE Len(buf) + 2

JoinLabel(name, label) == IF 0 < Len(name) THEN name \o <<DOT>> \o label ELSE label

PointerOffset(buf, cur) == (buf[cur + 1] % 64) * 256 + buf[cur + 2]

RECURSIVE ReadNameLoop(_, _, _, _)
ReadNameLoop(buf, cur, name, depth) ==
  IF depth = 0 THEN Overflow(cur)
  ELSE IF cur >= Len(buf) THEN Panic(cur)
  ELSE IF buf[cur + 1] = 0 THEN Ok(name, cur + 1)
  ELSE IF buf[cur + 1] >= 192 THEN
    IF cur + 1 >= Len(buf) THEN Panic(cur)
    ELSE IF PointerOffset(buf, cur) > Len(buf) THEN Panic(cur + 2)
    ELSE Try([ReadNameLoop(Tail0(buf, PointerOffset(buf, cur)), 0, <<>>, depth - 1)
                EXCEPT !.cur = cur + 2],
             LAMBDA compressed_name : Ok(JoinLabel(name, compressed_name.val), cur + 2))
  ELSE IF cur + 1 + buf[cur + 1] > Len(buf) THEN Panic(cur + 1)
  ELSE Try(FromUtf8Unwrap(SubSeq(buf, cur + 2, cur + 1 + buf[cur + 1]), cur + 1),
           LAMBDA label : ReadNameLoop(buf, label.cur + Len(label.val),
                                       JoinLabel(name, label.val), depth))

ReadName(buf, cur) == ReadNameLoop(buf, cur, <<>>, Frames(buf))

(***************************************************************************)
(* Type and Class.  A Type or Class value is the name of its variant.      *)
(***************************************************************************)
TypeFromValue(value) ==
  CASE value = 1 -> "A"
    [] value = 2 -> "NS"
    [] value = 5 -> "CNAME"
    [] value = 6 -> "SOA"
    [] value = 12 -> "PTR"
    [] value = 15 -> "MX"
    [] value = 16 -> "TXT"
    [] value = 28 -> "AAAA"
    [] value = 33 -> "SRV"
    [] value = 35 -> "NAPTR"
    [] value = 41 -> "OPT"
    [] value = 255 -> "ANY"
    [] value = 39 -> "NSEC"
    [] OTHER -> "NONE"

TypeToValue(typ) ==
  CASE typ = "A" -> 1
    [] typ = "NS" -> 2
    [] typ = "CNAME" -> 5
    [] typ = "SOA" -> 6
    [] typ = "PTR" -> 12
    [] typ = "MX" -> 15
    [] typ = "TXT" -> 16
    [] typ = "AAAA" -> 28
    [] typ = "SRV" -> 33
    [] typ = "NAPTR" -> 35
    [] typ = "OPT" -> 41
    [] typ = "ANY" -> 255
    [] typ = "NONE" -> 0
    [] typ = "NSEC" -> 39

ClassFromValue(value) == IF value = 1 THEN "IN" ELSE "NONE"

ClassToValue(cls) == IF cls = "IN" THEN 1 ELSE 0

(***************************************************************************)
(* Record.                                                                 *)
(***************************************************************************)
RecordNew ==
  [name |-> <<>>, data |-> <<>>, typ |-> "NONE", cls |-> "NONE",
   unicast_response |-> FALSE, ttl |-> U32(0, 0)]

ParseSection(rec, buf, cur) ==
  Try(ReadName(buf, cur), LAMBDA n :
  Try(ReadU16(buf, n.cur), LAMBDA t :
  Try(ReadU16(buf, t.cur), LAMBDA c :
      Ok([rec EXCEPT !.name = n.val,
                     !.typ = TypeFromValue(t.val),
                     !.cls = ClassFromValue(c.val % (CLASS_MASK + 1)),
                     !.unicast_response = (c.val >= UNICAST_RESPONSE_MASK)],
         c.cur))))

ParseRequestRecord(rec, buf, cur) == ParseSection(rec, buf, cur)

ParseResourceRecord(rec, buf, cur) ==
  Try(ParseSection(rec, buf, cur), LAMBDA s :
  Try(ReadU32(buf, s.cur), LAMBDA t :
  Try(ReadU16(buf, t.cur), LAMBDA l :
      IF 0 < l.val
      THEN Try(ReadBytes(buf, l.cur, l.val),
               LAMBDA d : Ok([s.val EXCEPT !.ttl = t.val, !.data = d.val], d.cur))
      ELSE Ok([s.val EXCEPT !.ttl = t.val], l.cur))))

(***************************************************************************)
(* Writer: each operation appends to the buffer.                           *)
(***************************************************************************)
WriteU8(w, value) == Append(w, value % 256)

WriteU16(w, value) == w \o <<(value \div 256) % 256, value % 256>>

WriteU32(w, value) ==
  w \o <<(value.hi \div 256) % 256, value.hi % 256,
         (value.lo \div 256) % 256, value.lo % 256>>

WriteBytes(w, bytes) == w \o bytes

WriteData(w, data) == WriteBytes(WriteU16(w, Len(data) % 65536), data)

\* str::split('.'): the pieces between the dots, one piece for a string
\* without a dot (the empty string included).
RECURSIVE SplitLoop(_, _, _, _)
SplitLoop(s, sep, i, piece) ==
  IF i > Len(s) THEN <<piece>>
  ELSE IF s[i] = sep THEN <<piece>> \o SplitLoop(s, sep, i + 1, <<>>)
  ELSE SplitLoop(s, sep, i + 1, Append(piece, s[i]))

Split(s, sep) == SplitLoop(s, sep, 1, <<>>)

RECURSIVE WriteChars(_, _)
WriteChars(w, chars) ==
  IF chars = <<>> THEN w
  ELSE WriteChars(WriteU8(w, chars[1]), Tail(chars))

RECURSIVE WriteLabels(_, _)
WriteLabels(w, labels) ==
  IF labels = <<>> THEN w
  ELSE LET label == labels[1] IN
       WriteLabels(WriteChars(WriteU8(w, Len(label)), Chars(label)), Tail(labels))

WriteName(w, name) == WriteU8(WriteLabels(w, Split(name, DOT)), 0)

WriteClassWord(w, record) ==
  WriteU16(w, ClassToValue(record.cls)
              + (IF record.unicast_response THEN UNICAST_RESPONSE_MASK ELSE 0))

WriteRequestRecord(w, record) ==
  WriteClassWord(WriteU16(WriteName(w, record.name), TypeToValue(record.typ)), record)

WriteResponseRecord(w, record) ==
  WriteData(WriteU32(WriteRequestRecord(w, record), record.ttl), record.data)

(***************************************************************************)
(* Message.                                                                *)
(***************************************************************************)
MessageNew ==
  [header |-> Zeros(HEADER_SIZE), questions |-> <<>>, answers |-> <<>>,
   authorities |-> <<>>, additionals |-> <<>>]

NumberOfEntries(msg, offset) == msg.header[offset + 1] * 256 + msg.header[offset + 2]

SetNumberOfEntries(msg, offset, num) ==
  [msg EXCEPT !.header[offset + 1] = (num \div 256) % 256,
              !.header[offset + 2] = num % 256]

QdCount(msg) == NumberOfEntries(msg, 4)
AnCount(msg) == NumberOfEntries(msg, 6)
NsCount(msg) == NumberOfEntries(msg, 8)
ArCount(msg) == NumberOfEntries(msg, 10)

SetQdCount(msg, num) == SetNumberOfEntries(msg, 4, num)
SetAnCount(msg, num) == SetNumberOfEntries(msg, 6, num)
SetNsCount(msg, num) == SetNumberOfEntries(msg, 8, num)
SetArCount(msg, num) == SetNumberOfEntries(msg, 10, num)

AddQuestion(msg, question) ==
  SetNumberOfEntries([msg EXCEPT !.questions = Append(@, question)], 4,
                     (Len(msg.questions) + 1) % 65536)

AddAnswer(msg, answer) ==
  SetNumberOfEntries([msg EXCEPT !.answers = Append(@, answer)], 6,
                     (Len(msg.answers) + 1) % 65536)

AddAuthority(msg, authority) ==
  SetNumberOfEntries([msg EXCEPT !.authorities = Append(@, authority)], 8,
                     (Len(msg.authorities) + 1) % 65536)

AddAdditional(msg, additional) ==
  SetNumberOfEntries([msg EXCEPT !.additionals = Append(@, additional)], 10,
                     (Len(msg.additionals) + 1) % 65536)

\* The loop "for _ in 0..count { record.parse_*(reader)?; list.push(record) }"
\* run on the list the Message already holds: a record that fails to parse ends
\* the loop with the records pushed so far left in the list.
RECURSIVE ParseRecords(_, _, _, _, _)
ParseRecords(buf, cur, count, resource, recs) ==
  IF count = 0 THEN Ok(recs, cur)
  ELSE TryLeaving(IF resource THEN ParseResourceRecord(RecordNew, buf, cur)
                  ELSE ParseRequestRecord(RecordNew, buf, cur),
                  recs,
                  LAMBDA r : ParseRecords(buf, r.cur, count - 1, resource,
                                          Append(recs, r.val)))

\* The Message after one section loop: the list holds what the loop pushed,
\* whether the loop ended normally or not.
PushedTo(m, section, r) == [r EXCEPT !.val = [m EXCEPT ![section] = r.val]]

\* The four loops take their counts from the header just read and push onto
\* the lists of the Message they are called on.
ParseSections(m, buf, cur) ==
  Try(PushedTo(m, "questions",
               ParseRecords(buf, cur, QdCount(m), FALSE, m.questions)), LAMBDA qd :
  Try(PushedTo(qd.val, "answers",
               ParseRecords(buf, qd.cur, AnCount(m), TRUE, m.answers)), LAMBDA an :
  Try(PushedTo(an.val, "authorities",
               ParseRecords(buf, an.cur, NsCount(m), TRUE, m.authorities)), LAMBDA ns :
      PushedTo(ns.val, "additionals",
               ParseRecords(buf, ns.cur, ArCount(m), TRUE, m.additionals)))))

\* read_bytes into self.header: a short buffer leaves the Message untouched.
ParseHeader(msg, buf, h) ==
  IF h.st # "ok" THEN [Err(0) EXCEPT !.val = msg]
  ELSE ParseSections([msg EXCEPT !.header = h.val], buf, h.cur)

\* Message::parse_bytes on any Message; the value of a result that is not Ok is
\* the Message as the call leaves it.
ParseBytes(msg, msg_bytes) ==
  ParseHeader(msg, msg_bytes, ReadBytes(msg_bytes, 0, HEADER_SIZE))

\* Message::from_bytes parses into a new Message and drops it on failure.
FromBytes(msg_bytes) ==
  TryLeaving(ParseBytes(MessageNew, msg_bytes), <<>>, LAMBDA ret : ret)

RECURSIVE WriteRecords(_, _, _)
WriteRecords(w, recs, resource) ==
  IF recs = <<>> THEN w
  ELSE WriteRecords(IF resource THEN WriteResponseRecord(w, recs[1])
                    ELSE WriteRequestRecord(w, recs[1]),
                    Tail(recs), resource)

ToBytes(msg) ==
  WriteRecords(
    WriteRecords(
      WriteRecords(
        WriteRecords(WriteBytes(<<>>, msg.header), msg.questions, FALSE),
        msg.answers, TRUE),
      msg.authorities, TRUE),
    msg.additionals, TRUE)

\* Clone for Message: serializes the NEW message, not self, and parses that.
\* The result of parse_bytes is ignored and the Message is returned as left.
MessageClone(msg) == ParseBytes(MessageNew, ToBytes(MessageNew)).val

(***************************************************************************)
(* Typed views of a Record's RDATA.                                        *)
(***************************************************************************)
ARecordFromRecord(record) ==
  IF Len(record.data) >= 4 THEN Ok([ipaddr |-> SubSeq(record.data, 1, 4)], 0)
  ELSE Err(0)

AAAARecordFromRecord(record) ==
  IF Len(record.data) >= 16
  THEN Ok([name |-> record.name, ipaddr |-> SubSeq(record.data, 1, 16)], 0)
  ELSE Err(0)

SRVRecordNew ==
  [service |-> <<>>, proto |-> <<>>, name |-> <<>>, priority |-> 0, weight |-> 0,
   port |-> 0, target |-> <<>>]

SRVRecordFromRecord(record) ==
  IF Len(record.data) = 0 THEN Ok(SRVRecordNew, 0)
  ELSE Try(ReadU16(record.data, 0), LAMBDA p :
       Try(ReadU16(record.data, p.cur), LAMBDA w :
       Try(ReadU16(record.data, w.cur), LAMBDA q :
       Try(ReadName(record.data, q.cur), LAMBDA t :
           Ok([SRVRecordNew EXCEPT !.priority = p.val, !.weight = w.val,
                                   !.port = q.val, !.target = t.val], t.cur)))))

PTRRecordFromRecord(record) ==
  Try(ReadName(record.data, 0),
      LAMBDA d : Ok([name |-> record.name, domain_name |-> d.val], d.cur))

\* s.splitn(2, '='): the part before the first '=' and the part after it.
RECURSIVE IndexOf(_, _, _)
IndexOf(s, c, i) ==
  IF i > Len(s) THEN 0 ELSE IF s[i] = c THEN i ELSE IndexOf(s, c, i + 1)

KeyAt(s, i) == IF i = 0 THEN s ELSE SubSeq(s, 1, i - 1)

ValueAt(s, i) == IF i = 0 THEN <<>> ELSE SubSeq(s, i + 1, Len(s))

AttrKey(s) == KeyAt(s, IndexOf(s, EQUALS, 1))

AttrValue(s) == ValueAt(s, IndexOf(s, EQUALS, 1))

\* HashMap::insert: a later value replaces the one stored under the key.
MapInsert(map, key, value) ==
  [k \in (DOMAIN map) \cup {key} |-> IF k = key THEN value ELSE map[k]]

RECURSIVE AttrsOf(_, _)
AttrsOf(strs, attrs) ==
  IF strs = <<>> THEN attrs
  ELSE AttrsOf(Tail(strs), MapInsert(attrs, AttrKey(strs[1]), AttrValue(strs[1])))

EmptyMap == [k \in {} |-> <<>>]

TXTRecordFromRecord(record) ==
  Try(ReadStrings(record.data, 0),
      LAMBDA r : Ok([name |-> record.name, strs |-> r.val,
                     attrs |-> AttrsOf(r.val, EmptyMap)], r.cur))

NSECRecordFromRecord(record) == Ok([name |-> record.name], 0)

\* Record::to_resource_record: the typed view behind Box<dyn ResourceRecord>,
\* kept with the name of its type.
Boxed(kind, r) == Try(r, LAMBDA v : Ok([kind |-> kind, view |-> v.val], v.cur))

ToResourceRecord(record) ==
  CASE record.typ = "A" -> Boxed("A", ARecordFromRecord(record))
    [] record.typ = "AAAA" -> Boxed("AAAA", AAAARecordFromRecord(record))
    [] record.typ = "TXT" -> Boxed("TXT", TXTRecordFromRecord(record))
    [] record.typ = "SRV" -> Boxed("SRV", SRVRecordFromRecord(record))
    [] record.typ = "PTR" -> Boxed("PTR", PTRRecordFromRecord(record))
    [] record.typ = "NSEC" -> Boxed("NSEC", NSECRecordFromRecord(record))
    [] OTHER -> Err(0)

\* Message::resource_records: the views of the answers, authorities and
\* additionals; a record whose view is an Err is left out.
PushView(r, views) ==
  IF r.st = "ok" THEN Ok(Append(views, r.val), 0)
  ELSE IF r.st = "err" THEN Ok(views, 0)
  ELSE r

RECURSIVE ResourceRecordsLoop(_, _)
ResourceRecordsLoop(recs, views) ==
  IF recs = <<>> THEN Ok(views, 0)
  ELSE Try(PushView(ToResourceRecord(recs[1]), views),
           LAMBDA v : ResourceRecordsLoop(Tail(recs), v.val))

\* resource_records that walks the answers only.
ResourceRecordsOfAnswers(msg) == ResourceRecordsLoop(msg.answers, <<>>)

ResourceRecords(msg) ==
  ResourceRecordsLoop(msg.answers \o msg.authorities \o msg.additionals, <<>>)

(***************************************************************************)
(* Service.                                                                *)
(***************************************************************************)
\* parse_record: the SRV and TXT arms unwrap the view; the arm "_ => {}"
\* stands before the A and AAAA arms, which therefore never match.
\* Result::unwrap: an Err becomes a panic.
Unwrap(r) == IF r.st = "err" THEN Panic(r.cur) ELSE r

ParseRecord(srv, record) ==
  CASE record.typ = "SRV" ->
         Try(Unwrap(SRVRecordFromRecord(record)),
             LAMBDA v : Ok([srv EXCEPT !.name = v.val.name, !.domain = v.val.proto,
                                       !.host = v.val.target, !.port = v.val.port], 0))
    [] record.typ = "TXT" ->
         Try(Unwrap(TXTRecordFromRecord(record)),
             LAMBDA v : Ok([srv EXCEPT !.attrs = v.val.attrs], 0))
    [] OTHER -> Ok(srv, 0)

RECURSIVE ParseRecordsOf(_, _)
ParseRecordsOf(srv, recs) ==
  IF recs = <<>> THEN Ok(srv, 0)
  ELSE Try(ParseRecord(srv, recs[1]), LAMBDA r : ParseRecordsOf(r.val, Tail(recs)))

ParseMessage(srv, msg) ==
  ParseRecordsOf(srv, msg.questions \o msg.answers \o msg.authorities \o msg.additionals)

ServiceFromMessage(msg) ==
  ParseMessage([msg |-> MessageClone(msg), name |-> <<>>, domain |-> <<>>,
                host |-> <<>>, port |-> 0, ipaddrs |-> <<>>, attrs |-> EmptyMap], msg)

(***************************************************************************)
(* Query and QueryMessage.                                                 *)
(***************************************************************************)
QueryWith(service, domain) == [service |-> service, domain |-> domain]

QueryToString(q) == q.service \o <<DOT>> \o q.domain

\* QueryMessage::new(q) stores Message::new() and does not read q.
QueryMessageNew(q) == [msg |-> MessageNew]

QueryMessageToBytes(qm) == Ok(ToBytes(qm.msg), 0)

(***************************************************************************)
(* The multicast transport (cybergarage::net::MulticastManager), an        *)
(* external collaborator: modelled from the transport contract.  It keeps  *)
(* the observers it was handed, the join requests and the datagrams it was *)
(* asked to send.  joinOk, stopOk and sendOk are the environment's         *)
(* answers: each of its three operations returns Result<(), io::Error>.     *)
(***************************************************************************)
TransportNew == [running |-> FALSE, observers |-> 0, joins |-> <<>>, sent |-> <<>>]

TransportAddObserver(t) == [t EXCEPT !.observers = @ + 1]

TransportIsRunning(t) == t.running

TransportStart(t, addrs, port, joinOk) ==
  [t |-> [t EXCEPT !.running = joinOk,
                   !.joins = Append(@, [addrs |-> addrs, port |-> port])],
   ret |-> IF joinOk THEN "ok" ELSE "err"]

\* stop leaves the groups and releases the sockets; a stop that fails returns
\* the error and leaves the transport as it was.
TransportStop(t, stopOk) ==
  IF stopOk THEN [t |-> [t EXCEPT !.running = FALSE], ret |-> "ok"]
  ELSE [t |-> t, ret |-> "err"]

TransportNotify(t, pkt, sendOk) ==
  [t |-> [t EXCEPT !.sent = Append(@, pkt)], ret |-> IF sendOk THEN "ok" ELSE "err"]

(***************************************************************************)
(* Discoverer { services, transport_mgr } behind Arc<Mutex<..>>.           *)
(***************************************************************************)
\* Discoverer::new: Arc::new gives one strong reference, and the clone handed
\* to add_observer is a second strong reference to the same Discoverer.
DiscovererNew ==
  [services |-> <<>>, transport_mgr |-> TransportAddObserver(TransportNew), strong |-> 2]

SendBytes(t, b, sendOk) ==
  IF b.st = "ok" THEN TransportNotify(t, b.val, sendOk) ELSE [t |-> t, ret |-> "err"]

DiscovererSearch(t, query, sendOk) ==
  SendBytes(t, QueryMessageToBytes(QueryMessageNew(query)), sendOk)

\* services(&self) -> &Vec<Service>: a reference to the live list.
DiscovererServices(srvs) == [kind |-> "ref"]

\* start without the is_running test: it asks the transport to join every time.
DiscovererStartAlwaysJoins(t, joinOk) ==
  TransportStart(t, <<MULTICAST_V6_ADDR, MULTICAST_V4_ADDR>>, PORT, joinOk)

DiscovererStart(t, joinOk) ==
  IF TransportIsRunning(t) THEN [t |-> t, ret |-> "ok"]
  ELSE TransportStart(t, <<MULTICAST_V6_ADDR, MULTICAST_V4_ADDR>>, PORT, joinOk)

\* stop that drops the transport's answer, as "let _ = ..; Ok(())" would.
DiscovererStopSilent(t, stopOk) == [TransportStop(t, stopOk) EXCEPT !.ret = "ok"]

DiscovererStop(t, stopOk) == TransportStop(t, stopOk)

\* Observer::packet_received.
PushService(srvs, msg) ==
  Try(ServiceFromMessage(msg), LAMBDA service : Ok(Append(srvs, service.val), 0))

MatchMessage(srvs, msg) ==
  IF msg.st = "ok" THEN PushService(srvs, msg.val)
  ELSE IF msg.st = "err" THEN Ok(srvs, 0)
  ELSE msg

PacketReceived(srvs, pkt) == MatchMessage(srvs, FromBytes(pkt))


(***************************************************************************)
(* Bounds of the model and the inputs the environment draws from.          *)
(***************************************************************************)
MaxJoins == 2
MaxSent == 2
MaxDeliveries == 2

Receivers == {"rx1", "rx2"}

Hdr(qd, an, ns, ar) == <<0, 0, 132, 0, 0, qd, 0, an, 0, ns, 0, ar>>

\* Shorter than a header: from_bytes returns Err.
D_SHORT == <<0, 0, 132>>
\* A header announcing no record.
D_EMPTY == Hdr(0, 0, 0, 0)
\* One SRV answer "s", port 8080, target "h".
D_SRV == Hdr(0, 1, 0, 0) \o <<1, 115, 0, 0, 33, 128, 1, 0, 0, 0, 120, 0, 9,
                              0, 0, 0, 0, 31, 144, 1, 104, 0>>
\* One question announced, none present.
D_TRUNC == Hdr(1, 0, 0, 0)
\* One A answer cut inside its TTL: from_bytes returns Err.
D_TTL == Hdr(0, 1, 0, 0) \o <<0, 0, 1, 0, 1, 0, 0>>
\* One SRV answer whose RDATA is two bytes long.
D_SRVBAD == Hdr(0, 1, 0, 0) \o <<0, 0, 33, 0, 1, 0, 0, 0, 120, 0, 2, 0, 0>>
\* One TXT answer with the strings "key=val" and "k2=".
D_TXT == Hdr(0, 1, 0, 0) \o <<0, 0, 16, 0, 1, 0, 0, 0, 120, 0, 12,
                              7, 107, 101, 121, 61, 118, 97, 108, 3, 107, 50, 61>>

Datagrams == {D_SHORT, D_EMPTY, D_SRV, D_TRUNC, D_TTL, D_SRVBAD, D_TXT}

Queries == {QueryWith(<<95, 104>>, <<108>>), QueryWith(<<95, 115>>, <<108>>)}

(***************************************************************************)
(* State.                                                                  *)
(*   services, transport_mgr  the fields of the Discoverer                 *)
(*   strong      strong count of the Arc<Mutex<Discoverer>>                *)
(*   appHandle   the application still holds its Arc                       *)
(*   dropped     Drop for Discoverer has run                               *)
(*   health      "ok", "poisoned" (a panic unwound through the MutexGuard) *)
(*               or "aborted" (stack exhaustion)                           *)
(*   view        what the caller holds from services(), with the guard     *)
(*   rx          the transport's receiver threads                          *)
(*   delivered   the datagrams handed to packet_received, in order         *)
(*   last        the last operation and what it did                        *)
(*   cmsg, cbytes, cparsed, cpc   a Message under construction, its bytes  *)
(*               and the result of parsing them                            *)
(*   cquery      the Query a QueryMessage was made from                    *)
(*   cviews      what resource_records() gave for the parsed Message       *)
(*   csrv        what Service::from_message gave for the parsed Message    *)
(*   rewritten   the bytes a parsed record is written back as              *)
(*   buffer, cursor   a Reader                                             *)
(*   rlast       the Reader's last operation and its result                *)
(*   stack       (declared with read_name) the frames the stack holds      *)
(***************************************************************************)
VARIABLES services, transport_mgr, strong, appHandle, dropped, health, view, rx,
          delivered, last, cmsg, cbytes, cparsed, cpc, cquery, cviews, csrv,
          rewritten, buffer, cursor, rlast

dvars == <<services, transport_mgr, strong, appHandle, dropped, health, view, rx,
           delivered, last>>
cvars == <<cmsg, cbytes, cparsed, cpc, cquery>>
wvars == <<cviews, csrv, rewritten>>
rvars == <<buffer, cursor, rlast>>
pvars == <<cmsg, cbytes, cparsed, cpc, cquery, cviews, csrv, rewritten, buffer,
           cursor, rlast>>
vars == <<services, transport_mgr, strong, appHandle, dropped, health, view, rx,
          delivered, last, cmsg, cbytes, cparsed, cpc, cquery, cviews, csrv,
          rewritten, buffer, cursor, rlast, stack>>

NoView == [kind |-> "none"]

RxIdle == [pc |-> "idle", pkt |-> <<>>]

Last(op, t0, t1, ret, before, pkt, outcome) ==
  [op |-> op, wasRunning |-> t0.running, ret |-> ret,
   handed |-> Len(t1.sent) - Len(t0.sent), asked |-> Len(t1.joins) - Len(t0.joins),
   before |-> before, pkt |-> pkt, outcome |-> outcome]

InitDiscoverer ==
  /\ services = DiscovererNew.services
  /\ transport_mgr = DiscovererNew.transport_mgr
  /\ strong = DiscovererNew.strong
  /\ appHandle = TRUE
  /\ dropped = FALSE
  /\ health = "ok"
  /\ view = NoView
  /\ rx = [r \in Receivers |-> RxIdle]
  /\ delivered = <<>>
  /\ last = Last("none", TransportNew, TransportNew, "none", <<>>, <<>>, "returned")

NoQuery == [service |-> <<>>, domain |-> <<>>, none |-> TRUE]

NoReader == [op |-> "none", before |-> 0, n |-> 0, st |-> "ok", val |-> <<>>]

InitWireIdle ==
  /\ stack \in StackSizes
  /\ cviews = <<>>
  /\ csrv = Err(0)
  /\ rewritten = <<>>

InitReaderIdle ==
  /\ buffer = <<>>
  /\ cursor = 0
  /\ rlast = NoReader

InitCodecIdle ==
  /\ cmsg = MessageNew
  /\ cbytes = <<>>
  /\ cparsed = Err(0)
  /\ cpc = "off"
  /\ cquery = NoQuery
  /\ InitWireIdle
  /\ InitReaderIdle

Init == InitDiscoverer /\ InitCodecIdle

\* The caller thread can take the lock: it holds a handle, the Mutex is not
\* poisoned and it holds no guard already.
CallerCanLock == appHandle /\ health = "ok" /\ view = NoView

StartDone(r) ==
  /\ transport_mgr' = r.t
  /\ last' = Last("start", transport_mgr, r.t, r.ret, services, <<>>, "returned")

Start(joinOk) ==
  /\ CallerCanLock
  /\ transport_mgr.running \/ Len(transport_mgr.joins) < MaxJoins
  /\ StartDone(DiscovererStart(transport_mgr, joinOk))
  /\ UNCHANGED <<services, strong, appHandle, dropped, health, view, rx, delivered>>
  /\ UNCHANGED <<pvars, stack>>

StopDone(r) ==
  /\ transport_mgr' = r.t
  /\ last' = Last("stop", transport_mgr, r.t, r.ret, services, <<>>, "returned")

Stop(stopOk) ==
  /\ CallerCanLock
  /\ StopDone(DiscovererStop(transport_mgr, stopOk))
  /\ UNCHANGED <<services, strong, appHandle, dropped, health, view, rx, delivered>>
  /\ UNCHANGED <<pvars, stack>>

SearchDone(r) ==
  /\ transport_mgr' = r.t
  /\ last' = Last("search", transport_mgr, r.t, r.ret, services, <<>>, "returned")

Search(query, sendOk) ==
  /\ CallerCanLock
  /\ Len(transport_mgr.sent) < MaxSent
  /\ SearchDone(DiscovererSearch(transport_mgr, query, sendOk))
  /\ UNCHANGED <<services, strong, appHandle, dropped, health, view, rx, delivered>>
  /\ UNCHANGED <<pvars, stack>>

\* The caller locks the Discoverer and keeps what services() returns.
Services ==
  /\ CallerCanLock
  /\ view' = DiscovererServices(services)
  /\ last' = Last("services", transport_mgr, transport_mgr, "ok", services, <<>>,
                  "returned")
  /\ UNCHANGED <<services, transport_mgr, strong, appHandle, dropped, health, rx,
                 delivered>>
  /\ UNCHANGED <<pvars, stack>>

\* The caller lets go of the list and of the guard.
ReleaseView ==
  /\ view # NoView
  /\ view' = NoView
  /\ UNCHANGED <<services, transport_mgr, strong, appHandle, dropped, health, rx,
                 delivered, last>>
  /\ UNCHANGED <<pvars, stack>>

InFlight == Cardinality({r \in Receivers : rx[r].pc = "dispatched"})

\* A receiver thread of the running transport takes a datagram off the socket.
Dispatch(r, pkt) ==
  /\ transport_mgr.running /\ transport_mgr.observers > 0
  /\ health # "aborted"
  /\ rx[r].pc = "idle"
  /\ Len(delivered) + InFlight < MaxDeliveries
  /\ rx' = [rx EXCEPT ![r] = [pc |-> "dispatched", pkt |-> pkt]]
  /\ UNCHANGED <<services, transport_mgr, strong, appHandle, dropped, health, view,
                 delivered, last>>
  /\ UNCHANGED <<pvars, stack>>

CallbackDone(r, res) ==
  /\ services' = IF res.st = "ok" THEN res.val ELSE services
  /\ health' = CASE res.st = "ok" -> "ok"
                 [] res.st = "overflow" -> "aborted"
                 [] OTHER -> "poisoned"
  /\ rx' = [rx EXCEPT ![r] = IF res.st = "ok" THEN RxIdle
                             ELSE [pc |-> "dead", pkt |-> <<>>]]
  /\ last' = Last("packet_received", transport_mgr, transport_mgr, "none",
                  services, rx[r].pkt, IF res.st = "ok" THEN "returned" ELSE res.st)

\* The receiver thread locks the observer and calls packet_received.
Callback(r) ==
  /\ rx[r].pc = "dispatched"
  /\ health = "ok" /\ view = NoView
  /\ CallbackDone(r, PacketReceived(services, rx[r].pkt))
  /\ delivered' = Append(delivered, rx[r].pkt)
  /\ UNCHANGED <<transport_mgr, strong, appHandle, dropped, view>>
  /\ UNCHANGED <<pvars, stack>>

\* Drop for Discoverer: "let _ = self.stop()".
DiscovererDrop(t, stopOk) == DiscovererStop(t, stopOk).t

\* The application drops its Arc; the Discoverer is dropped, and Drop calls
\* stop, when that was the last strong reference.
ReleaseHandle(stopOk) ==
  /\ appHandle /\ view = NoView /\ health # "aborted"
  /\ appHandle' = FALSE
  /\ strong' = strong - 1
  /\ dropped' = (strong' = 0)
  /\ transport_mgr' = IF strong' = 0 THEN DiscovererDrop(transport_mgr, stopOk)
                      ELSE transport_mgr
  /\ last' = Last("release", transport_mgr, transport_mgr', "none", services, <<>>,
                  "returned")
  /\ UNCHANGED <<services, health, view, rx, delivered>>
  /\ UNCHANGED <<pvars, stack>>

Next ==
  \/ \E joinOk \in BOOLEAN : Start(joinOk)
  \/ \E stopOk \in BOOLEAN : Stop(stopOk)
  \/ \E q \in Queries, sendOk \in BOOLEAN : Search(q, sendOk)
  \/ Services
  \/ ReleaseView
  \/ \E r \in Receivers, pkt \in Datagrams : Dispatch(r, pkt)
  \/ \E r \in Receivers : Callback(r)
  \/ \E stopOk \in BOOLEAN : ReleaseHandle(stopOk)

Spec == Init /\ [][Next]_vars

(***************************************************************************)
(* Building a Message with the public operations, serializing it and       *)
(* parsing the bytes.                                                      *)
(***************************************************************************)
MaxRecords == 2

SetId(msg, id) ==
  [msg EXCEPT !.header[1] = (id \div 256) % 256, !.header[2] = id % 256]

SetQr(msg, response) ==
  [msg EXCEPT !.header[3] = IF response THEN (@ % 128) + 128 ELSE @ % 128]

\* Record::new followed by the setters.
RecordWith(name, typ, cls, unicast_response, ttl, data) ==
  [RecordNew EXCEPT !.name = name, !.typ = typ, !.cls = cls,
                    !.unicast_response = unicast_response, !.ttl = ttl, !.data = data]

\* "", "a" and "a.b"
RecordNames == {<<>>, <<97>>, <<97, DOT, 98>>}

RecordTypes == {"PTR", "A"}

RecordBodies ==
  {[unicast_response |-> FALSE, ttl |-> U32(0, 0), data |-> <<>>],
   [unicast_response |-> TRUE, ttl |-> U32(0, 120), data |-> <<192, 168, 1, 5>>]}

BuiltRecords ==
  {RecordWith(n, t, "IN", b.unicast_response, b.ttl, b.data) :
     n \in RecordNames, t \in RecordTypes, b \in RecordBodies}

\* Questions carry no TTL and no RDATA on the wire: they are built with the
\* name, type, class and unicast-response setters only.
QuestionRecords ==
  {RecordWith(n, t, "IN", u, RecordNew.ttl, RecordNew.data) :
     n \in RecordNames, t \in RecordTypes, u \in BOOLEAN}

RecordCount(msg) ==
  Len(msg.questions) + Len(msg.answers) + Len(msg.authorities) + Len(msg.additionals)

InitCodec ==
  /\ InitDiscoverer
  /\ cmsg \in {SetQr(SetId(MessageNew, id), qr) : id \in {0, 258}, qr \in BOOLEAN}
  /\ cbytes = <<>>
  /\ cparsed = Err(0)
  /\ cpc = "build"
  /\ cquery = NoQuery
  /\ InitWireIdle
  /\ InitReaderIdle

CanAdd == cpc = "build" /\ cquery = NoQuery /\ RecordCount(cmsg) < MaxRecords

AddQuestionStep(record) ==
  /\ CanAdd
  /\ cmsg' = AddQuestion(cmsg, record)
  /\ UNCHANGED <<cbytes, cparsed, cpc, cquery>>
  /\ UNCHANGED <<stack, dvars, wvars, rvars>>

AddAnswerStep(record) ==
  /\ CanAdd
  /\ cmsg' = AddAnswer(cmsg, record)
  /\ UNCHANGED <<cbytes, cparsed, cpc, cquery>>
  /\ UNCHANGED <<stack, dvars, wvars, rvars>>

AddAuthorityStep(record) ==
  /\ CanAdd
  /\ cmsg' = AddAuthority(cmsg, record)
  /\ UNCHANGED <<cbytes, cparsed, cpc, cquery>>
  /\ UNCHANGED <<stack, dvars, wvars, rvars>>

AddAdditionalStep(record) ==
  /\ CanAdd
  /\ cmsg' = AddAdditional(cmsg, record)
  /\ UNCHANGED <<cbytes, cparsed, cpc, cquery>>
  /\ UNCHANGED <<stack, dvars, wvars, rvars>>

\* QueryMessage::new(q) in place of a Message built by hand.
QueryMessageStep(q) ==
  /\ cpc = "build" /\ cquery = NoQuery /\ RecordCount(cmsg) = 0
  /\ cmsg' = QueryMessageNew(q).msg
  /\ cquery' = q
  /\ UNCHANGED <<cbytes, cparsed, cpc>>
  /\ UNCHANGED <<stack, dvars, wvars, rvars>>

\* Message::to_bytes, reached through QueryMessage::to_bytes for a query.
SerializedBytes ==
  IF cquery = NoQuery THEN ToBytes(cmsg) ELSE QueryMessageToBytes([msg |-> cmsg]).val

Serialize ==
  /\ cpc = "build"
  /\ cbytes' = SerializedBytes
  /\ cpc' = "bytes"
  /\ UNCHANGED <<cmsg, cparsed, cquery>>
  /\ UNCHANGED <<stack, dvars, wvars, rvars>>

Parse ==
  /\ cpc = "bytes"
  /\ cparsed' = FromBytes(cbytes)
  /\ cpc' = "parsed"
  /\ UNCHANGED <<cmsg, cbytes, cquery>>
  /\ UNCHANGED <<stack, dvars, wvars, rvars>>

NextCodec ==
  \/ \E record \in QuestionRecords : AddQuestionStep(record)
  \/ \E record \in BuiltRecords : AddAnswerStep(record)
  \/ \E record \in BuiltRecords : AddAuthorityStep(record)
  \/ \E record \in BuiltRecords : AddAdditionalStep(record)
  \/ \E q \in Queries : QueryMessageStep(q)
  \/ Serialize
  \/ Parse

SpecCodec == InitCodec /\ [][NextCodec]_vars

(***************************************************************************)
(* Parsing received bytes: a header followed by up to MaxFragments pieces, *)
(* then Message::from_bytes, then resource_records() or                    *)
(* Service::from_message on the parsed Message.                            *)
(***************************************************************************)
MaxFragments == 2

\* Question "a" PTR IN.
F_Q == <<1, 97, 0, 0, 12, 0, 1>>
\* A records with the root owner name: 192.168.1.5 and 10.0.0.1.
F_A == <<0, 0, 1, 0, 1, 0, 0, 0, 120, 0, 4, 192, 168, 1, 5>>
F_A2 == <<0, 0, 1, 0, 1, 0, 0, 0, 120, 0, 4, 10, 0, 0, 1>>
\* An A record whose RDATA is two bytes long.
F_ASHORT == <<0, 0, 1, 0, 1, 0, 0, 0, 120, 0, 2, 10, 0>>
\* An A record whose owner name is a pointer to offset 12.
F_APTR == <<192, 12, 0, 1, 128, 1, 0, 0, 0, 120, 0, 4, 10, 0, 0, 2>>
\* AAAA ::1.
F_AAAA == <<0, 0, 28, 0, 1, 0, 0, 0, 120, 0, 16,
            0, 0, 0, 0, 0, 0, 0, 0, 0, 0, 0, 0, 0, 0, 0, 1>>
\* PTR records: RDATA a pointer to offset 12, and RDATA the name "b".
F_PTR12 == <<0, 0, 12, 0, 1, 0, 0, 0, 120, 0, 2, 192, 12>>
F_PTR == <<0, 0, 12, 0, 1, 0, 0, 0, 120, 0, 3, 1, 98, 0>>
\* SRV priority 0, weight 0, port 8080, target "h".
F_SRV == <<1, 115, 0, 0, 33, 0, 1, 0, 0, 0, 120, 0, 9, 0, 0, 0, 0, 31, 144, 1, 104, 0>>
\* TXT "k=1", "k=2", "j" and a terminating zero.
F_TXT == <<0, 0, 16, 0, 1, 0, 0, 0, 120, 0, 11, 3, 107, 61, 49, 3, 107, 61, 50, 1, 106, 0>>
\* An unknown type (99) with one byte of RDATA.
F_UNKNOWN == <<0, 0, 99, 0, 1, 0, 0, 0, 0, 0, 1, 7>>
\* A label announced and cut off.
F_CUT == <<3, 97>>

\* TXT "key=val", "k2=" ending with the RDATA, no terminating zero.
F_TXTEND == <<0, 0, 16, 0, 1, 0, 0, 0, 120, 0, 12,
              7, 107, 101, 121, 61, 118, 97, 108, 3, 107, 50, 61>>
\* An SRV record with no RDATA and an AAAA record with four bytes of RDATA.
F_SRVEMPTY == <<0, 0, 33, 0, 1, 0, 0, 0, 120, 0, 0>>
F_AAAASHORT == <<0, 0, 28, 0, 1, 0, 0, 0, 120, 0, 4, 254, 128, 0, 1>>

Fragments ==
  {F_Q, F_A, F_A2, F_ASHORT, F_APTR, F_AAAA, F_PTR12, F_PTR, F_SRV, F_TXT, F_UNKNOWN,
   F_CUT, F_TXTEND, F_SRVEMPTY, F_AAAASHORT}

RECURSIVE WireBodies(_)
WireBodies(n) ==
  IF n = 0 THEN {<<>>}
  ELSE WireBodies(n - 1) \cup {b \o f : b \in WireBodies(n - 1), f \in Fragments}

WireHeaders == {Hdr(qd, an, ns, ar) : qd \in 0..1, an \in 0..2, ns \in 0..1, ar \in 0..1}

InitWire ==
  /\ InitDiscoverer
  /\ InitReaderIdle
  /\ InitWireIdle
  /\ cmsg = MessageNew
  /\ cquery = NoQuery
  /\ cbytes \in {h \o b : h \in WireHeaders, b \in WireBodies(MaxFragments)}
  /\ cparsed = Err(0)
  /\ cpc = "wire"

ParseWire ==
  /\ cpc = "wire"
  /\ cparsed' = FromBytes(cbytes)
  /\ cpc' = "wparsed"
  /\ UNCHANGED <<cmsg, cbytes, cquery>>
  /\ UNCHANGED <<stack, dvars, wvars, rvars>>

ResourceRecordsStep ==
  /\ cpc = "wparsed" /\ cparsed.st = "ok"
  /\ cviews' = ResourceRecords(cparsed.val)
  /\ cpc' = "viewed"
  /\ UNCHANGED <<cmsg, cbytes, cparsed, cquery, csrv, rewritten>>
  /\ UNCHANGED <<stack, dvars, rvars>>

FromMessageStep ==
  /\ cpc = "wparsed" /\ cparsed.st = "ok"
  /\ csrv' = ServiceFromMessage(cparsed.val)
  /\ cpc' = "aggregated"
  /\ UNCHANGED <<cmsg, cbytes, cparsed, cquery, cviews, rewritten>>
  /\ UNCHANGED <<stack, dvars, rvars>>

\* Message::parse_bytes is public: a caller may hand a second buffer (the same
\* datagram again, an empty message, or a message of one A record) to a Message
\* that already holds the records of an earlier parse.
ReparseBuffers == {D_EMPTY, Hdr(0, 1, 0, 0) \o F_A}

ParseBytesStep(msg_bytes) ==
  /\ cpc = "wparsed" /\ cparsed.st = "ok"
  /\ cparsed' = ParseBytes(cparsed.val, msg_bytes)
  /\ cbytes' = msg_bytes
  /\ cpc' = "reparsed"
  /\ UNCHANGED <<cmsg, cquery>>
  /\ UNCHANGED <<stack, dvars, wvars, rvars>>

NextWire ==
  \/ ParseWire
  \/ ResourceRecordsStep
  \/ FromMessageStep
  \/ \E msg_bytes \in ReparseBuffers \cup {cbytes} : ParseBytesStep(msg_bytes)

SpecWire == InitWire /\ [][NextWire]_vars

(***************************************************************************)
(* A Reader over a buffer of up to MaxBuf bytes (or over a datagram), and  *)
(* any sequence of its operations.  A Reader whose operation panicked or   *)
(* exhausted the stack is gone with its thread.                            *)
(***************************************************************************)
MaxBuf == 3

\* Terminator, label lengths, 'a', the pointer mark 0xc0 and 0xff.
ReaderBytes == {0, 1, 2, 97, 192, 255}

RECURSIVE ByteSeqs(_)
ByteSeqs(n) ==
  IF n = 0 THEN {<<>>}
  ELSE ByteSeqs(n - 1) \cup {Append(b, x) : b \in ByteSeqs(n - 1), x \in ReaderBytes}

ReadSizes == {0, 1, 3}

\* "abc" at offset 0 and a pointer to it at offset 5.
B_ABC == <<3, 97, 98, 99, 0, 192, 0>>
\* "a" at offset 0, "b" and a pointer to offset 0 at offset 3, a pointer to
\* offset 3 at offset 7.
B_NESTED == <<1, 97, 0, 1, 98, 192, 0, 192, 3>>
\* A label whose length octet is 64 (high bits 01), followed by 64 bytes.
B_RESERVED == <<64>> \o [i \in 1..64 |-> 97] \o <<0>>

\* A chain of five pointers that ends, each to offset 2 of the slice it is read
\* in, with the root name at its end.
B_CHAIN == <<192, 2, 192, 2, 192, 2, 192, 2, 192, 2, 0>>

NameBuffers == {B_ABC, B_NESTED, B_RESERVED, B_CHAIN}

InitReader ==
  /\ InitDiscoverer
  /\ InitWireIdle
  /\ cmsg = MessageNew
  /\ cquery = NoQuery
  /\ cbytes = <<>>
  /\ cparsed = Err(0)
  /\ cpc = "off"
  /\ buffer \in ByteSeqs(MaxBuf) \cup Datagrams \cup NameBuffers
  /\ cursor = 0
  /\ rlast = NoReader

ReaderAlive == rlast.st \in {"ok", "err"}

\* The operation op, asked for n bytes, ended with the result r.
ReadDone(op, n, r) ==
  /\ ReaderAlive
  /\ rlast' = [op |-> op, before |-> cursor, n |-> n, st |-> r.st, val |-> r.val]
  /\ cursor' = IF r.st \in {"ok", "err"} THEN r.cur ELSE cursor
  /\ UNCHANGED buffer
  /\ UNCHANGED <<stack, dvars, cvars, wvars>>

SetOffsetStep(offset) ==
  /\ ReaderAlive
  /\ cursor' = offset
  /\ rlast' = [op |-> "set_offset", before |-> cursor, n |-> 0, st |-> "ok", val |-> <<>>]
  /\ UNCHANGED buffer
  /\ UNCHANGED <<stack, dvars, cvars, wvars>>

ReadU8Step == ReadDone("read_u8", 1, ReadU8(buffer, cursor))

ReadU16Step == ReadDone("read_u16", 2, ReadU16(buffer, cursor))

ReadU32Step == ReadDone("read_u32", 4, ReadU32(buffer, cursor))

ReadBytesStep(n) == ReadDone("read_bytes", n, ReadBytes(buffer, cursor, n))

ReadStringStep == ReadDone("read_string", 0, ReadString(buffer, cursor))

ReadStringsStep == ReadDone("read_strings", 0, ReadStrings(buffer, cursor))

ReadNameStep == ReadDone("read_name", 0, ReadName(buffer, cursor))

\* Message::from_bytes(buffer): it reads through a Reader of its own.
FromBytesDone(r) ==
  /\ ReaderAlive
  /\ rlast' = [op |-> "from_bytes", before |-> cursor, n |-> 0, st |-> r.st, val |-> r.val]
  /\ UNCHANGED <<buffer, cursor>>
  /\ UNCHANGED <<stack, dvars, cvars, wvars>>

FromBytesStep == FromBytesDone(FromBytes(buffer))

NextReader ==
  \/ \E offset \in 0..(Len(buffer) + 1) : SetOffsetStep(offset)
  \/ ReadU8Step
  \/ ReadU16Step
  \/ ReadU32Step
  \/ \E n \in ReadSizes : ReadBytesStep(n)
  \/ ReadStringStep
  \/ ReadStringsStep
  \/ ReadNameStep
  \/ FromBytesStep

SpecReader == InitReader /\ [][NextReader]_vars

(***************************************************************************)
(* One record with the owner name "a", type PTR and any class word, parsed *)
(* as a question or as a resource record and written back.                 *)
(***************************************************************************)
ClassWords == {<<hi, lo>> : hi \in 0..255, lo \in 0..255}

RecordBytes(w) == <<1, 97, 0, 0, 12>> \o w \o <<0, 0, 0, 120, 0, 0>>

InitRecord ==
  /\ InitDiscoverer
  /\ InitReaderIdle
  /\ InitWireIdle
  /\ cmsg = MessageNew
  /\ cquery = NoQuery
  /\ cbytes \in {RecordBytes(w) : w \in ClassWords}
  /\ cparsed = Err(0)
  /\ cpc = "record"

RecordParsed(r, pc) ==
  /\ cpc = "record"
  /\ cparsed' = r
  /\ cpc' = pc
  /\ UNCHANGED <<cmsg, cbytes, cquery>>
  /\ UNCHANGED <<stack, dvars, wvars, rvars>>

ParseRequestRecordStep ==
  RecordParsed(ParseRequestRecord(RecordNew, cbytes, 0), "question")

ParseResourceRecordStep ==
  RecordParsed(ParseResourceRecord(RecordNew, cbytes, 0), "resource")

RecordWritten(pc, bytes) ==
  /\ cpc = pc /\ cparsed.st = "ok"
  /\ rewritten' = bytes
  /\ cpc' = "written"
  /\ UNCHANGED <<cmsg, cbytes, cparsed, cquery, cviews, csrv>>
  /\ UNCHANGED <<stack, dvars, rvars>>

WriteRequestRecordStep ==
  RecordWritten("question", WriteRequestRecord(<<>>, cparsed.val))

WriteResponseRecordStep ==
  RecordWritten("resource", WriteResponseRecord(<<>>, cparsed.val))

NextRecord ==
  \/ ParseRequestRecordStep
  \/ ParseResourceRecordStep
  \/ WriteRequestRecordStep
  \/ WriteResponseRecordStep

SpecRecord == InitRecord /\ [][NextRecord]_vars

(***************************************************************************)
(* A domain name written by Writer::write_name and read back by            *)
(* Reader::read_name over the written bytes.  cbytes holds the name (a     *)
(* Rust string, its UTF-8 bytes).                                          *)
(***************************************************************************)
MaxLabelChars == 2

MaxLabels == 2

\* 'a', 'b' and the two-byte character U+00E9.
NameChars == {<<97>>, <<98>>, <<195, 169>>}

RECURSIVE LabelsOf(_)
LabelsOf(n) ==
  IF n = 1 THEN NameChars
  ELSE LabelsOf(n - 1) \cup {l \o c : l \in LabelsOf(n - 1), c \in NameChars}

RECURSIVE NamesOf(_)
NamesOf(n) ==
  IF n = 1 THEN LabelsOf(MaxLabelChars)
  ELSE NamesOf(n - 1)
         \cup {m \o <<DOT>> \o l : m \in NamesOf(n - 1), l \in LabelsOf(MaxLabelChars)}

\* A label of the greatest length, 63.
LongLabel == [i \in 1..63 |-> 97]

Names == NamesOf(MaxLabels) \cup {LongLabel, LongLabel \o <<DOT, 98>>}

InitName ==
  /\ InitDiscoverer
  /\ InitReaderIdle
  /\ InitWireIdle
  /\ cmsg = MessageNew
  /\ cquery = NoQuery
  /\ cbytes \in Names
  /\ cparsed = Err(0)
  /\ cpc = "name"

\* writer.write_name(n), then Reader::from_bytes over the writer's bytes.
WriteNameStep ==
  /\ cpc = "name"
  /\ buffer' = WriteName(<<>>, cbytes)
  /\ cursor' = 0
  /\ cpc' = "named"
  /\ UNCHANGED <<cmsg, cbytes, cparsed, cquery, rlast>>
  /\ UNCHANGED <<stack, dvars, wvars>>

ReadWrittenNameStep ==
  /\ cpc = "named" /\ rlast.op = "none"
  /\ ReadNameStep

NextName == WriteNameStep \/ ReadWrittenNameStep

SpecName == InitName /\ [][NextName]_vars

(***************************************************************************)
(* Every 16-bit type code, decoded by Type::from_value and encoded again   *)
(* by Type::to_value.  cbytes holds the code, big-endian.                  *)
(***************************************************************************)
TypeCodes == {<<hi, lo>> : hi \in 0..255, lo \in 0..255}

CodeOf(w) == w[1] * 256 + w[2]

InitType ==
  /\ InitDiscoverer
  /\ InitReaderIdle
  /\ InitWireIdle
  /\ cmsg = MessageNew
  /\ cquery = NoQuery
  /\ cbytes \in TypeCodes
  /\ cparsed = Err(0)
  /\ cpc = "code"

TypeFromValueStep ==
  /\ cpc = "code"
  /\ cparsed' = Ok(TypeFromValue(CodeOf(cbytes)), 0)
  /\ cpc' = "typed"
  /\ UNCHANGED <<cmsg, cbytes, cquery>>
  /\ UNCHANGED <<stack, dvars, wvars, rvars>>

TypeToValueStep ==
  /\ cpc = "typed"
  /\ rewritten' = WriteU16(<<>>, TypeToValue(cparsed.val))
  /\ cpc' = "valued"
  /\ UNCHANGED <<cmsg, cbytes, cparsed, cquery, cviews, csrv>>
  /\ UNCHANGED <<stack, dvars, rvars>>

NextType == TypeFromValueStep \/ TypeToValueStep

SpecType == InitType /\ [][NextType]_vars

(***************************************************************************)
(* The Discoverer with the caller's calls taken apart.  start, stop and    *)
(* search take &mut self, and the only Discoverer there is lives in the    *)
(* Arc<Mutex<Discoverer>> that Discoverer::new returns: the caller locks,  *)
(* calls, and the MutexGuard lives until the call has returned.  view      *)
(* holds the guard and the call in progress.  Whether the transport's stop *)
(* waits for its receiver threads is the transport's choice (joins).       *)
(***************************************************************************)
Guard(op, joins) == [kind |-> "guard", op |-> op, joins |-> joins]

InCall(op) == view.kind = "guard" /\ view.op = op

\* d.lock().unwrap(), then the call enters the transport.
CallEntered(op, joins) ==
  /\ CallerCanLock
  /\ view' = Guard(op, joins)
  /\ UNCHANGED <<services, transport_mgr, strong, appHandle, dropped, health, rx,
                 delivered, last>>
  /\ UNCHANGED <<pvars, stack>>

\* The transport call has returned, the method returns, the guard is dropped.
CallReturned ==
  /\ view' = NoView
  /\ UNCHANGED <<services, strong, appHandle, dropped, health, rx, delivered>>
  /\ UNCHANGED <<pvars, stack>>

StartCall ==
  /\ transport_mgr.running \/ Len(transport_mgr.joins) < MaxJoins
  /\ CallEntered("start", FALSE)

StartReturn(joinOk) ==
  /\ InCall("start")
  /\ StartDone(DiscovererStart(transport_mgr, joinOk))
  /\ CallReturned

StopCall(joins) == CallEntered("stop", joins)

\* A stop that joins the receiver threads returns when none is in a callback.
StopReturn(stopOk) ==
  /\ InCall("stop")
  /\ view.joins => InFlight = 0
  /\ StopDone(DiscovererStop(transport_mgr, stopOk))
  /\ CallReturned

SearchCall ==
  /\ Len(transport_mgr.sent) < MaxSent
  /\ CallEntered("search", FALSE)

SearchReturn(query, sendOk) ==
  /\ InCall("search")
  /\ SearchDone(DiscovererSearch(transport_mgr, query, sendOk))
  /\ CallReturned

NextLock ==
  \/ StartCall
  \/ \E joinOk \in BOOLEAN : StartReturn(joinOk)
  \/ \E joins \in BOOLEAN : StopCall(joins)
  \/ \E stopOk \in BOOLEAN : StopReturn(stopOk)
  \/ SearchCall
  \/ \E q \in Queries, sendOk \in BOOLEAN : SearchReturn(q, sendOk)
  \/ \E r \in Receivers, pkt \in Datagrams : Dispatch(r, pkt)
  \/ \E r \in Receivers : Callback(r)

SpecLock == Init /\ [][NextLock]_vars

(***************************************************************************)
(* A Message under all its public mutating operations: the four add_* and  *)
(* the four set_*_count, then to_bytes.                                    *)
(***************************************************************************)
CountRecords == {RecordWith(<<97>>, "A", "IN", FALSE, U32(0, 120), <<192, 168, 1, 5>>)}

CountNumbers == {0, 1, 258}

InitCounts ==
  /\ InitDiscoverer
  /\ InitReaderIdle
  /\ InitWireIdle
  /\ cmsg = MessageNew
  /\ cquery = NoQuery
  /\ cbytes = <<>>
  /\ cparsed = Err(0)
  /\ cpc = "build"

CountSet(msg) ==
  /\ cpc = "build"
  /\ cmsg' = msg
  /\ UNCHANGED <<cbytes, cparsed, cpc, cquery>>
  /\ UNCHANGED <<stack, dvars, wvars, rvars>>

SetQdCountStep(num) == CountSet(SetQdCount(cmsg, num))

SetAnCountStep(num) == CountSet(SetAnCount(cmsg, num))

SetNsCountStep(num) == CountSet(SetNsCount(cmsg, num))

SetArCountStep(num) == CountSet(SetArCount(cmsg, num))

NextCounts ==
  \/ \E r \in CountRecords : AddQuestionStep(r)
  \/ \E r \in CountRecords : AddAnswerStep(r)
  \/ \E r \in CountRecords : AddAuthorityStep(r)
  \/ \E r \in CountRecords : AddAdditionalStep(r)
  \/ \E num \in CountNumbers : SetQdCountStep(num)
  \/ \E num \in CountNumbers : SetAnCountStep(num)
  \/ \E num \in CountNumbers : SetNsCountStep(num)
  \/ \E num \in CountNumbers : SetArCountStep(num)
  \/ Serialize

SpecCounts == InitCounts /\ [][NextCounts]_vars

(***************************************************************************)
(* Properties.                                                             *)
(***************************************************************************)

\* C1: a search issued while the Discoverer is Idle returns an error and hands
\* no datagram to the transport; a search issued while Running hands exactly
\* one datagram to the transport.
C1_SearchOnlyWhenRunning ==
  last.op = "search" =>
    IF last.wasRunning THEN last.handed = 1
    ELSE last.ret = "err" /\ last.handed = 0

\* C2: start on a running transport returns success without asking the
\* transport to join again and stays Running; start from Idle asks the
\* transport once to join the IPv4 and the IPv6 group on port 5353 and is
\* Running afterwards exactly when that join succeeded, returning the
\* transport's error otherwise.
C2_StartIdempotent ==
  last.op = "start" =>
    IF last.wasRunning
    THEN last.ret = "ok" /\ last.asked = 0 /\ transport_mgr.running
    ELSE /\ last.asked = 1
         /\ transport_mgr.joins[Len(transport_mgr.joins)] =
              [addrs |-> <<"ff02::fb", "224.0.0.251">>, port |-> 5353]
         /\ transport_mgr.running <=> (last.ret = "ok")
         /\ last.ret \in {"ok", "err"}

C2_Witness ==
  /\ last.op = "start" /\ last.wasRunning /\ last.ret = "ok"
  /\ Len(transport_mgr.joins) = MaxJoins

\* C3 as stated: after stop the Discoverer is Idle and the service list is
\* what it was; a stop issued when it is already Idle returns success.
C3_StopIdempotent ==
  last.op = "stop" =>
    /\ ~transport_mgr.running
    /\ services = last.before
    /\ ~last.wasRunning => last.ret = "ok"

\* C3: stop hands the request to the transport and returns the transport's
\* answer.  A stop that returns success leaves the Discoverer Idle, whether it
\* was Running or Idle already; a stop the transport fails returns the error.
\* Either way the service list is what it was and the transport is asked for
\* no join and no send.
C3_StopForwards ==
  last.op = "stop" =>
    /\ services = last.before
    /\ last.asked = 0 /\ last.handed = 0
    /\ last.ret \in {"ok", "err"}
    /\ last.ret = "ok" => ~transport_mgr.running

\* A stop of a Running Discoverer that holds a service and whose transport
\* fails to stop.
C3_Witness ==
  /\ last.op = "stop" /\ last.wasRunning /\ last.ret = "err"
  /\ transport_mgr.running /\ Len(services) > 0

\* A datagram that is not a well-formed message: it does not parse, or it
\* carries an SRV or TXT record whose RDATA does not decode.
BadView(record) ==
  \/ record.typ = "SRV" /\ SRVRecordFromRecord(record).st # "ok"
  \/ record.typ = "TXT" /\ TXTRecordFromRecord(record).st # "ok"

AllRecords(m) == m.questions \o m.answers \o m.authorities \o m.additionals

HasBadView(m) == \E i \in 1..RecordCount(m) : BadView(AllRecords(m)[i])

NotWellFormed(msg) == msg.st # "ok" \/ HasBadView(msg.val)

Malformed(pkt) == NotWellFormed(FromBytes(pkt))

\* C4: for a datagram that is not a well-formed message packet_received
\* returns normally and leaves the service list and the Running/Idle state
\* as they were; nothing unwinds into the transport thread.
C4_MalformedDropped ==
  (last.op = "packet_received" /\ Malformed(last.pkt)) =>
    /\ last.outcome = "returned"
    /\ services = last.before
    /\ transport_mgr.running = last.wasRunning
    /\ health = "ok"

Parseable(pkt) == FromBytes(pkt).st = "ok"

ParseableDelivered == {i \in 1..Len(delivered) : Parseable(delivered[i])}

\* C5: every packet_received with a parseable datagram appends exactly one
\* Service at the end of the list, and the list holds one Service per
\* parseable datagram delivered so far.
C5_OnePerParseable ==
  /\ (last.op = "packet_received" /\ Parseable(last.pkt)) =>
       /\ Len(services) = Len(last.before) + 1
       /\ SubSeq(services, 1, Len(last.before)) = last.before
  /\ Len(services) = Cardinality(ParseableDelivered)

\* C6: whenever no callback is in flight, the N parseable datagrams delivered
\* so far by the receiver threads have left exactly N entries in the list.
C6_NoAppendLost ==
  (\A r \in Receivers : rx[r].pc # "dispatched") =>
    Cardinality(ParseableDelivered) = Len(services)

\* C7: a datagram delivered after stop has returned, while the Discoverer is
\* Idle, does not change the service list.
C7_StopCancelsCallbacks ==
  (last.op = "packet_received" /\ ~last.wasRunning) => services = last.before

\* C8: what a caller obtains from services() is a copy, not aliased to the
\* live list, so that no later operation on the Discoverer can change it.
C8_ServicesIsSnapshot == view # NoView => view.kind = "copy"

\* C9: when the application releases its last handle to a Running Discoverer,
\* the Discoverer is dropped and its transport is stopped.
C9_DropStopsTransport ==
  (last.op = "release" /\ last.wasRunning) => dropped /\ ~transport_mgr.running

\* C10: a built Message, serialized and parsed, parses successfully into a
\* Message equal to it in header, counts and the records of each section.
C10_RoundTrip == cpc = "parsed" => cparsed.st = "ok" /\ cparsed.val = cmsg

\* The Message from_bytes returned Ok for, in any later step of the same run.
WireParsed ==
  cpc \in {"wparsed", "viewed", "aggregated", "reparsed"} /\ cparsed.st = "ok"

QuestionShaped(record) == record.ttl = RecordNew.ttl /\ record.data = RecordNew.data

\* C11: a Message on which parsing a buffer succeeded (from_bytes, or
\* parse_bytes on a Message parsed before) has its four counts equal to the
\* lengths of its four sections, its header is the first 12 bytes of the buffer,
\* and its questions were parsed as question records (no TTL, no RDATA read).
C11_CountsMatchSections ==
  WireParsed =>
    /\ QdCount(cparsed.val) = Len(cparsed.val.questions)
    /\ AnCount(cparsed.val) = Len(cparsed.val.answers)
    /\ NsCount(cparsed.val) = Len(cparsed.val.authorities)
    /\ ArCount(cparsed.val) = Len(cparsed.val.additionals)
    /\ \A i \in 1..Len(cparsed.val.questions) : QuestionShaped(cparsed.val.questions[i])
    /\ cparsed.val.header = SubSeq(cbytes, 1, HEADER_SIZE)

\* The question QueryMessage::new(q) is to hold: q.to_string(), PTR, IN, no
\* unicast-response bit.
QuestionOf(q) == RecordWith(QueryToString(q), "PTR", "IN", FALSE, RecordNew.ttl, RecordNew.data)

\* C12: the message of QueryMessage::new(q) has ID 0 and all flags 0, and
\* serializing and parsing it gives qd_count 1 and the one question
\* q.to_string(), PTR, IN without the unicast-response bit.
C12_QueryMessageQuestion ==
  (cpc = "parsed" /\ cquery # NoQuery) =>
    /\ SubSeq(cmsg.header, 1, 4) = <<0, 0, 0, 0>>
    /\ cparsed.st = "ok"
    /\ QdCount(cparsed.val) = 1
    /\ cparsed.val.questions = <<QuestionOf(cquery)>>

\* C13: Message::from_bytes, read_name, read_string and read_strings end with
\* a value or an error value on every buffer; none of them panics or aborts.
C13_CodecNeverUnwinds ==
  rlast.op \in {"from_bytes", "read_name", "read_string", "read_strings"} =>
    rlast.st \in {"ok", "err"}

\* C14: read_name terminates on every buffer: a pointer that leads back to
\* itself ends in an error instead of an endless traversal.
C14_PointerLoopsEnd == rlast.op = "read_name" => rlast.st # "overflow"

ReadOps ==
  {"read_u8", "read_u16", "read_u32", "read_bytes", "read_string", "read_strings",
   "read_name"}

\* C15: after every read that returned successfully the cursor is within the
\* buffer.
C15_CursorWithinBuffer ==
  (rlast.op \in ReadOps /\ rlast.st = "ok") => cursor <= Len(buffer)

C15_Witness ==
  /\ rlast.op = "read_name" /\ rlast.st = "ok" /\ rlast.val = <<97>>
  /\ cursor = Len(buffer) /\ Len(buffer) = MaxBuf

\* The bytes the last operation requires and the bytes that remained.
Need ==
  IF rlast.op = "read_string"
  THEN IF rlast.before < Len(buffer) THEN 1 + buffer[rlast.before + 1] ELSE 1
  ELSE rlast.n

Remaining == Len(buffer) - rlast.before

Decodable ==
  rlast.op = "read_string" =>
    IsUtf8(SubSeq(buffer, rlast.before + 2, rlast.before + Need))

\* C16: read_u8, read_u16, read_u32, read_bytes and read_string succeed when
\* the bytes they require remain, and return an error when fewer remain, the
\* cursor at the end of the buffer included.
C16_ShortBufferIsError ==
  rlast.op \in {"read_u8", "read_u16", "read_u32", "read_bytes", "read_string"} =>
    IF Remaining >= Need THEN (Decodable => rlast.st = "ok") ELSE rlast.st = "err"

\* The address an A or AAAA record carries, when its RDATA is valid.
AddressView(record) ==
  IF record.typ = "A" THEN ARecordFromRecord(record)
  ELSE IF record.typ = "AAAA" THEN AAAARecordFromRecord(record)
  ELSE Err(0)

RECURSIVE AddressesOf(_)
AddressesOf(recs) ==
  IF recs = <<>> THEN <<>>
  ELSE IF AddressView(recs[1]).st = "ok"
       THEN <<AddressView(recs[1]).val.ipaddr>> \o AddressesOf(Tail(recs))
       ELSE AddressesOf(Tail(recs))

OnlyARecords(m) ==
  /\ Len(m.answers \o m.authorities \o m.additionals) > 0
  /\ \A i \in 1..RecordCount(m) : AllRecords(m)[i].typ = "A"

\* C17: the Service made from a message lists the addresses of all A and AAAA
\* records with valid RDATA, in section order and with duplicates; a message
\* of A records only gives those addresses, an empty host, port 0 and no
\* attributes.
C17_AddressesCollected ==
  (cpc = "aggregated" /\ csrv.st = "ok") =>
    /\ csrv.val.ipaddrs = AddressesOf(AllRecords(cparsed.val))
    /\ OnlyARecords(cparsed.val) =>
         (csrv.val.host = <<>> /\ csrv.val.port = 0 /\ csrv.val.attrs = EmptyMap)

\* The value of the first string of strs that has the key of strs[j].
RECURSIVE FirstValue(_, _, _)
FirstValue(strs, key, i) ==
  IF AttrKey(strs[i]) = key THEN AttrValue(strs[i]) ELSE FirstValue(strs, key, i + 1)

FirstWins(txt) ==
  \A j \in 1..Len(txt.strs) :
    txt.attrs[AttrKey(txt.strs[j])] = FirstValue(txt.strs, AttrKey(txt.strs[j]), 1)

\* C18: the attribute map of a TXT view holds, for every key, the value of
\* the first string that carries the key.
C18_FirstWins ==
  (cpc = "viewed" /\ cviews.st = "ok") =>
    \A i \in 1..Len(cviews.val) :
      cviews.val[i].kind = "TXT" => FirstWins(cviews.val[i].view)

\* Every resource record is a PTR whose RDATA is a pointer to offset 12.
OnlyPointerPTR(m) ==
  /\ Len(m.answers \o m.authorities \o m.additionals) > 0
  /\ \A i \in 1..Len(m.answers \o m.authorities \o m.additionals) :
       /\ (m.answers \o m.authorities \o m.additionals)[i].typ = "PTR"
       /\ (m.answers \o m.authorities \o m.additionals)[i].data = <<192, HEADER_SIZE>>

\* C19: a PTR record whose RDATA is a pointer to message offset 12 yields the
\* name that stands at offset 12 of the message.
C19_PointerInRdata ==
  (/\ cpc = "viewed"
   /\ OnlyPointerPTR(cparsed.val)
   /\ ReadName(cbytes, HEADER_SIZE).st = "ok") =>
    /\ cviews.st = "ok"
    /\ Len(cviews.val) = Len(cparsed.val.answers \o cparsed.val.authorities
                                \o cparsed.val.additionals)
    /\ \A i \in 1..Len(cviews.val) :
         cviews.val[i].view.domain_name = ReadName(cbytes, HEADER_SIZE).val

\* C20: a record parsed from the class word w is written back with the class
\* word w, for every 16-bit w (the class word follows the 3 bytes of the name
\* and the 2 bytes of the type).
C20_ClassWordRoundTrip ==
  cpc = "written" => SubSeq(rewritten, 6, 7) = SubSeq(cbytes, 6, 7)

\* C21: read_name over the bytes write_name produced for a name of labels of
\* length 1..63 returns the name and leaves the cursor at the end of the bytes.
C21_NameRoundTrip ==
  (cpc = "named" /\ rlast.op = "read_name") =>
    /\ rlast.st = "ok"
    /\ rlast.val = cbytes
    /\ cursor = Len(buffer)

\* The type codes of the specification and the variant each one names.
NamedCodes ==
  {<<1, "A">>, <<2, "NS">>, <<5, "CNAME">>, <<6, "SOA">>, <<12, "PTR">>, <<15, "MX">>,
   <<16, "TXT">>, <<28, "AAAA">>, <<33, "SRV">>, <<35, "NAPTR">>, <<41, "OPT">>,
   <<47, "NSEC">>, <<255, "ANY">>}

\* C22: from_value maps every code of the specified set to its variant and
\* every other 16-bit code to NONE, and to_value gives the code back for
\* every code of the set.
C22_TypeCodes ==
  cpc \in {"typed", "valued"} =>
    /\ \A p \in NamedCodes : CodeOf(cbytes) = p[1] => cparsed.val = p[2]
    /\ (\A p \in NamedCodes : CodeOf(cbytes) # p[1]) => cparsed.val = "NONE"
    /\ (cpc = "valued" /\ \E p \in NamedCodes : CodeOf(cbytes) = p[1]) =>
         rewritten = cbytes

SupportedTypes == {"A", "AAAA", "TXT", "SRV", "PTR", "NSEC"}

Resources(m) == m.answers \o m.authorities \o m.additionals

Viewable(record) ==
  record.typ \in SupportedTypes /\ ToResourceRecord(record).st = "ok"

ViewsOf(recs) == [i \in 1..Len(recs) |-> ToResourceRecord(recs[i]).val]

\* C23: resource_records on a parsed message returns, and what it returns
\* are the views of the answers, authorities and additionals in their order,
\* leaving out every record of an unsupported type; the message is what it
\* was before the call.
C23_ViewsInOrder ==
  cpc = "viewed" =>
    /\ cviews.st = "ok"
    /\ cviews.val = ViewsOf(SelectSeq(Resources(cparsed.val), Viewable))
    /\ \A i \in 1..Len(cviews.val) : cviews.val[i].kind \in SupportedTypes
    /\ cparsed = FromBytes(cbytes)
    /\ AnCount(cparsed.val) = Len(cparsed.val.answers)
    /\ NsCount(cparsed.val) = Len(cparsed.val.authorities)
    /\ ArCount(cparsed.val) = Len(cparsed.val.additionals)

\* The count field written at the zero-based offset of the header.
WrittenCount(offset) == cbytes[offset + 1] * 256 + cbytes[offset + 2]

\* C24: at every to_bytes call on a Message built by add_* and set_*_count
\* each count field written equals the length of its record list.
C24_CountsAtSerialize ==
  cpc = "bytes" =>
    /\ WrittenCount(4) = Len(cmsg.questions)
    /\ WrittenCount(6) = Len(cmsg.answers)
    /\ WrittenCount(8) = Len(cmsg.authorities)
    /\ WrittenCount(10) = Len(cmsg.additionals)

\* The caller is inside a transport call of start, stop or search.
InTransportCall == InCall("start") \/ InCall("stop") \/ InCall("search")

\* The Discoverer's Mutex is held by the caller.
LockHeld == view.kind = "guard"

\* stop waits for a receiver thread that waits for the lock stop's caller holds.
StopBlocked == InCall("stop") /\ view.joins /\ InFlight > 0

\* C25: the Discoverer's lock is never held across the transport calls of
\* start, stop and search, and stop is never left waiting for a callback in
\* flight that cannot take the lock.
C25_NoLockAcrossTransport ==
  /\ InTransportCall => ~LockHeld
  /\ ~StopBlocked

\* The name that stands at an offset of a message when every pointer is an
\* offset from the start of the message: ok is FALSE where there is none
\* (the buffer ends, a reserved label type, a pointer cycle, bytes that are
\* no UTF-8).
NoName == [ok |-> FALSE, name |-> <<>>]

JoinNames(label, rest) ==
  IF ~rest.ok THEN NoName
  ELSE [ok |-> TRUE,
        name |-> IF rest.name = <<>> THEN label ELSE label \o <<DOT>> \o rest.name]

RECURSIVE NameAt(_, _, _)
NameAt(buf, cur, hops) ==
  IF cur >= Len(buf) THEN NoName
  ELSE IF buf[cur + 1] = 0 THEN [ok |-> TRUE, name |-> <<>>]
  ELSE IF buf[cur + 1] >= 192
       THEN IF cur + 1 >= Len(buf) \/ hops = 0 THEN NoName
            ELSE NameAt(buf, (buf[cur + 1] % 64) * 256 + buf[cur + 2], hops - 1)
  ELSE IF buf[cur + 1] >= 64 THEN NoName
  ELSE IF cur + 1 + buf[cur + 1] > Len(buf) THEN NoName
  ELSE IF ~IsUtf8(SubSeq(buf, cur + 2, cur + 1 + buf[cur + 1])) THEN NoName
  ELSE JoinNames(SubSeq(buf, cur + 2, cur + 1 + buf[cur + 1]),
                 NameAt(buf, cur + 1 + buf[cur + 1], hops))

\* C26: every pointer met while decoding a name, one reached through a
\* pointer included, is an offset from the start of the whole buffer:
\* read_name returns the name that stands there.
C26_PointersFromMessageStart ==
  (rlast.op = "read_name" /\ NameAt(buffer, rlast.before, Len(buffer)).ok) =>
    /\ rlast.st = "ok"
    /\ rlast.val = NameAt(buffer, rlast.before, Len(buffer)).name

\* The octet read_name took for a label length has the high bits 01 or 10.
ReservedLabel ==
  /\ rlast.before < Len(buffer)
  /\ buffer[rlast.before + 1] >= 64 /\ buffer[rlast.before + 1] < 192

\* C27: read_name returns an error on a label length octet whose two high
\* bits are 01 or 10.
C27_ReservedLabelsRejected ==
  (rlast.op = "read_name" /\ ReservedLabel) => rlast.st = "err"

\* The strings of a TXT RDATA that is made of <len><bytes> strings and ends
\* with the last of them: ok is FALSE when the RDATA is not of that form.
RECURSIVE StringsUpTo(_, _, _)
StringsUpTo(data, cur, strs) ==
  IF cur = Len(data) THEN [ok |-> TRUE, strs |-> strs]
  ELSE IF data[cur + 1] = 0 \/ cur + 1 + data[cur + 1] > Len(data)
       THEN [ok |-> FALSE, strs |-> <<>>]
  ELSE IF ~IsUtf8(SubSeq(data, cur + 2, cur + 1 + data[cur + 1]))
       THEN [ok |-> FALSE, strs |-> <<>>]
  ELSE StringsUpTo(data, cur + 1 + data[cur + 1],
                   Append(strs, SubSeq(data, cur + 2, cur + 1 + data[cur + 1])))

OneResource(m, typ) == Len(Resources(m)) = 1 /\ Resources(m)[1].typ = typ

\* The key of strs[j] occurs in no other string.
KeyOnce(strs, j) ==
  \A i \in 1..Len(strs) : AttrKey(strs[i]) = AttrKey(strs[j]) => i = j

\* C28: a TXT RDATA of strings that end exactly with the RDATA, without a
\* terminating zero, parses into those strings and one attribute per string:
\* the key before the first '=', the value after it.
C28_TxtWithoutTerminator ==
  (/\ cpc = "viewed"
   /\ OneResource(cparsed.val, "TXT")
   /\ StringsUpTo(Resources(cparsed.val)[1].data, 0, <<>>).ok) =>
    /\ cviews.st = "ok"
    /\ Len(cviews.val) = 1
    /\ cviews.val[1].view.strs = StringsUpTo(Resources(cparsed.val)[1].data, 0, <<>>).strs
    /\ \A j \in 1..Len(cviews.val[1].view.strs) :
         /\ AttrKey(cviews.val[1].view.strs[j]) \in DOMAIN cviews.val[1].view.attrs
         /\ KeyOnce(cviews.val[1].view.strs, j) =>
              cviews.val[1].view.attrs[AttrKey(cviews.val[1].view.strs[j])]
                = AttrValue(cviews.val[1].view.strs[j])

\* The least RDATA length of a view: 4 for A, 16 for AAAA, 6 for SRV.
MinRdata(typ) ==
  CASE typ = "A" -> 4 [] typ = "AAAA" -> 16 [] typ = "SRV" -> 6 [] OTHER -> 0

\* C29: a record whose RDATA is shorter than the least layout of its view
\* gets an error and no view; an A or AAAA record with at least that much
\* holds the address made of its first 4 resp. 16 octets.
C29_ShortRdataIsError ==
  (/\ cpc = "viewed"
   /\ Len(Resources(cparsed.val)) = 1
   /\ Resources(cparsed.val)[1].typ \in {"A", "AAAA", "SRV"}) =>
    IF Len(Resources(cparsed.val)[1].data) < MinRdata(Resources(cparsed.val)[1].typ)
    THEN cviews.st = "ok" /\ cviews.val = <<>>
    ELSE Resources(cparsed.val)[1].typ \in {"A", "AAAA"} =>
           /\ cviews.st = "ok" /\ Len(cviews.val) = 1
           /\ cviews.val[1].view.ipaddr
                = SubSeq(Resources(cparsed.val)[1].data, 1,
                         MinRdata(Resources(cparsed.val)[1].typ))

\* C30: the message a Service stores, the clone of the message it was built
\* from, is what parsing the serialized original gives: the same header,
\* counts and records in each section.
C30_CloneIsReparse ==
  (/\ cpc = "aggregated" /\ csrv.st = "ok"
   /\ FromBytes(ToBytes(cparsed.val)).st = "ok") =>
    /\ csrv.val.msg.header = FromBytes(ToBytes(cparsed.val)).val.header
    /\ csrv.val.msg.questions = FromBytes(ToBytes(cparsed.val)).val.questions
    /\ csrv.val.msg.answers = FromBytes(ToBytes(cparsed.val)).val.answers
    /\ csrv.val.msg.authorities = FromBytes(ToBytes(cparsed.val)).val.authorities
    /\ csrv.val.msg.additionals = FromBytes(ToBytes(cparsed.val)).val.additionals

====
